---- MODULE Spec2Model ----
(***************************************************************************)
(* Model of the two emulator-provisioning scripts                          *)
(*   src/create_resources.py                    (the "simple" variant)     *)
(*   src/storage-simulator/create_resources.py  (the "rich" variant)       *)
(* Each script runs create_s3_bucket() and then create_azure_container().  *)
(* Every SDK call is one step whose outcome is chosen by the environment   *)
(* (the emulator's answer for its current state, or a failure).  The       *)
(* try/except structure of the code decides what is written to standard    *)
(* output and where control goes next.                                     *)
(***************************************************************************)
EXTENDS Integers, Sequences, FiniteSets, TLC

VARIABLES variant,     \* which script is being run: "simple" or "rich"
          dupPolicy,   \* how the S3 emulator answers a create of an existing bucket
          buckets,     \* remote S3 store: set of bucket names
          objects,     \* remote S3 store: set of [bucket, key, body]
          containers,  \* remote blob store: set of container names
          run,         \* number of the current execution of the script
          mi,          \* position in the main sequence (index into Main)
          pc,          \* position inside the running provisioner
          out,         \* lines written to standard output by the current run
          calls,       \* SDK calls issued by the current run, in order
          start,       \* remote state when the current run began
          prev         \* out, calls and start of the previous run

vars == <<variant, dupPolicy, buckets, objects, containers, run, mi, pc,
          out, calls, start, prev>>

\* Number of consecutive executions of the script that are explored.
MaxRuns == 2

-----------------------------------------------------------------------------
(* Text of exceptions: str(e) is a sequence of fragments, and                *)
(* `needle in str(e)` is the search for a fragment in it.                    *)

Contains(text, needle) == \E i \in 1..Len(text) : text[i] = needle

ClientErrorText(code, op) ==
  <<"An error occurred (", code, ") when calling the ", op, " operation">>

ConnectText == <<"Could not connect to the endpoint URL">>

CtorText == <<"Invalid endpoint">>

AzureErrorText(code) == <<"The request failed. ErrorCode:", code>>

OkRes == [kind |-> "ok", text |-> <<>>]

Failure(kind, text) == [kind |-> kind, text |-> text]

Ok(r) == r.kind = "ok"

\* Answers the S3 emulator can give to a create of a bucket that exists.
DupPolicies == {"BucketAlreadyExists", "BucketAlreadyOwnedByYou", "Accept"}

-----------------------------------------------------------------------------
(* Outcomes of the SDK calls.                                                *)

\* boto3.client(...): local construction, no request is sent.
ClientCtorResults == {OkRes, Failure("ctor", CtorText)}

ListBucketsResults ==
  { OkRes,
    Failure("conn", ConnectText),
    Failure("op", ClientErrorText("InternalError", "ListBuckets")) }

CreateBucketResults(name) ==
  { Failure("conn", ConnectText),
    Failure("op", ClientErrorText("InternalError", "CreateBucket")),
    Failure("op", ClientErrorText("BucketNameUnavailable", "CreateBucket")) }
  \cup
  ( IF name \in buckets /\ dupPolicy # "Accept"
      THEN {Failure("dup", ClientErrorText(dupPolicy, "CreateBucket"))}
      ELSE {OkRes} )

PutObjectResults(name) ==
  { Failure("conn", ConnectText),
    Failure("op", ClientErrorText("InternalError", "PutObject")) }
  \cup
  ( IF name \in buckets
      THEN {OkRes}
      ELSE {Failure("nosuch", ClientErrorText("NoSuchBucket", "PutObject"))} )

\* BlobServiceClient.from_connection_string / get_container_client: local.
HandleResults == {OkRes, Failure("ctor", <<"Connection string is malformed">>)}

CreateContainerResults(name) ==
  { Failure("conn", ConnectText),
    Failure("op", AzureErrorText("InternalError")) }
  \cup
  ( IF name \in containers
      THEN {Failure("dup", AzureErrorText("ContainerAlreadyExists"))}
      ELSE {OkRes} )

StoreObject(objs, b, k, body) ==
  {o \in objs : ~(o.bucket = b /\ o.key = k)}
    \cup {[bucket |-> b, key |-> k, body |-> body]}

-----------------------------------------------------------------------------
(* Standard output.                                                          *)

Line(glyph, head, text) == [glyph |-> glyph, head |-> head, text |-> text]

Plain(head) == Line("none", head, <<>>)

Success(head) == Line("ok", head, <<>>)

Info(head) == Line("info", head, <<>>)

ErrorLine(head, e) == Line("err", head, e.text)

BucketListing == IF buckets = {} THEN <<>> ELSE <<"test-bucket">>

Call(fn, op, r) == [fn |-> fn, op |-> op, kind |-> r.kind, text |-> r.text]

-----------------------------------------------------------------------------
(* The main sequence.                                                        *)

\* Fault: the two calls of the main sequence are exchanged.
MainSwapped == <<"create_azure_container", "create_s3_bucket">>

Main == <<"create_s3_bucket", "create_azure_container">>

Entry(fn) == IF fn = "create_s3_bucket" THEN "client" ELSE "from_connection_string"

Running(fn) == mi <= Len(Main) /\ Main[mi] = fn

\* A provisioner returns to the main sequence, which calls the next one.
Return ==
  /\ mi' = mi + 1
  /\ pc' = IF mi + 1 > Len(Main) THEN "done" ELSE Entry(Main[mi + 1])

Stay(next) == mi' = mi /\ pc' = next

Fixed == UNCHANGED <<variant, dupPolicy, run, start, prev>>

-----------------------------------------------------------------------------
(* create_s3_bucket, simple variant (src/create_resources.py).               *)

\* Fault: the bucket is created under a misspelt name.
SimpleS3RequestMisnamed == [Bucket |-> "test_bucket"]

SimpleS3Request == [Bucket |-> "test-bucket"]

\* Fault: the handler swallows the exception without printing.
SimpleS3ExceptSilent(lines, e) ==
  /\ out' = lines
  /\ Return

\* except Exception as e: print(f"S3 Error: {e}") -- the function then returns.
SimpleS3Except(lines, e) ==
  /\ out' = Append(lines, ErrorLine("S3 Error: ", e))
  /\ Return

\* print("Creating S3 bucket..."); s3 = boto3.client(...)
SimpleS3Client ==
  /\ variant = "simple" /\ Running("create_s3_bucket") /\ pc = "client"
  /\ \E r \in ClientCtorResults :
       LET lines == Append(out, Plain("Creating S3 bucket...")) IN
       /\ calls' = Append(calls, Call("create_s3_bucket", "boto3.client", r))
       /\ IF Ok(r) THEN out' = lines /\ Stay("create_bucket")
                   ELSE SimpleS3Except(lines, r)
  /\ UNCHANGED <<buckets, objects, containers>>
  /\ Fixed

\* s3.create_bucket(Bucket='test-bucket'); print("... created")
SimpleS3CreateBucket ==
  /\ variant = "simple" /\ Running("create_s3_bucket") /\ pc = "create_bucket"
  /\ \E r \in CreateBucketResults(SimpleS3Request.Bucket) :
       /\ calls' = Append(calls, Call("create_s3_bucket", "create_bucket", r))
       /\ IF Ok(r)
            THEN /\ buckets' = buckets \cup {SimpleS3Request.Bucket}
                 /\ out' = Append(out, Success("S3 Bucket 'test-bucket' created"))
                 /\ Return
            ELSE /\ buckets' = buckets
                 /\ SimpleS3Except(out, r)
  /\ UNCHANGED <<objects, containers>>
  /\ Fixed

-----------------------------------------------------------------------------
(* create_s3_bucket, rich variant (src/storage-simulator/create_resources.py) *)

RichCreateRequest == [Bucket |-> "test-bucket"]

\* Fault: the uploaded body is truncated.
RichPutRequestTruncated ==
  [Bucket |-> "test-bucket", Key |-> "test_file_boto.txt", Body |-> "Hello"]

RichPutRequest ==
  [Bucket |-> "test-bucket", Key |-> "test_file_boto.txt", Body |-> "Hello Boto3"]

\* Fault: only one of the two substrings is looked for.
RichIsAlreadyExistsNarrow(text) == Contains(text, "BucketAlreadyExists")

\* if "BucketAlreadyExists" in str(e) or "BucketNameUnavailable" in str(e)
RichIsAlreadyExists(text) ==
  Contains(text, "BucketAlreadyExists") \/ Contains(text, "BucketNameUnavailable")

\* Fault: the outer handler lets the exception leave the function.
RichS3ExceptPropagates(lines, e) ==
  /\ out' = lines
  /\ Stay("crashed")

\* outer handler: except Exception as e: print(f"S3 Error: {e}")
RichS3Except(lines, e) ==
  /\ out' = Append(lines, ErrorLine("S3 Error: ", e))
  /\ Return

\* inner handler of create_bucket: an already-exists failure is reported as
\* information and the function goes on to the upload; anything else is
\* raised again and lands in the outer handler.
RichCreateExcept(lines, e) ==
  IF RichIsAlreadyExists(e.text)
    THEN out' = Append(lines, Info("S3 Bucket already exists")) /\ Stay("put_object")
    ELSE RichS3Except(lines, e)

RichS3Client ==
  /\ variant = "rich" /\ Running("create_s3_bucket") /\ pc = "client"
  /\ \E r \in ClientCtorResults :
       LET lines == Append(out, Plain("Creating S3 bucket...")) IN
       /\ calls' = Append(calls, Call("create_s3_bucket", "boto3.client", r))
       /\ IF Ok(r) THEN out' = lines /\ Stay("list_buckets")
                   ELSE RichS3Except(lines, r)
  /\ UNCHANGED <<buckets, objects, containers>>
  /\ Fixed

\* print("Buckets:", s3.list_buckets()['Buckets'])
RichS3ListBuckets ==
  /\ variant = "rich" /\ Running("create_s3_bucket") /\ pc = "list_buckets"
  /\ \E r \in ListBucketsResults :
       /\ calls' = Append(calls, Call("create_s3_bucket", "list_buckets", r))
       /\ IF Ok(r)
            THEN /\ out' = Append(out, Line("none", "Buckets:", BucketListing))
                 /\ Stay("create_bucket")
            ELSE RichS3Except(out, r)
  /\ UNCHANGED <<buckets, objects, containers>>
  /\ Fixed

RichS3CreateBucket ==
  /\ variant = "rich" /\ Running("create_s3_bucket") /\ pc = "create_bucket"
  /\ \E r \in CreateBucketResults(RichCreateRequest.Bucket) :
       /\ calls' = Append(calls, Call("create_s3_bucket", "create_bucket", r))
       /\ IF Ok(r)
            THEN /\ buckets' = buckets \cup {RichCreateRequest.Bucket}
                 /\ out' = Append(out, Success("S3 Bucket 'test-bucket' created"))
                 /\ Stay("put_object")
            ELSE /\ buckets' = buckets
                 /\ RichCreateExcept(out, r)
  /\ UNCHANGED <<objects, containers>>
  /\ Fixed

\* s3.put_object(...); print("S3 Upload successful via Boto3")
RichS3PutObject ==
  /\ variant = "rich" /\ Running("create_s3_bucket") /\ pc = "put_object"
  /\ \E r \in PutObjectResults(RichPutRequest.Bucket) :
       /\ calls' = Append(calls, Call("create_s3_bucket", "put_object", r))
       /\ IF Ok(r)
            THEN /\ objects' = StoreObject(objects, RichPutRequest.Bucket,
                                           RichPutRequest.Key, RichPutRequest.Body)
                 /\ out' = Append(out, Success("S3 Upload successful via Boto3"))
                 /\ Return
            ELSE /\ objects' = objects
                 /\ RichS3Except(out, r)
  /\ UNCHANGED <<buckets, containers>>
  /\ Fixed

-----------------------------------------------------------------------------
(* create_azure_container (the same code in both scripts).                   *)

AzContainerName == "test-container"

\* Fault: the bucket substring is looked for in the container error.
AzIsAlreadyExistsWrongNeedle(text) == Contains(text, "BucketAlreadyExists")

\* if "ContainerAlreadyExists" in str(e)
AzIsAlreadyExists(text) == Contains(text, "ContainerAlreadyExists")

\* outer handler: except Exception as e: print(f"Azure Script Error: {e}")
AzOuterExcept(lines, e) ==
  /\ out' = Append(lines, ErrorLine("Azure Script Error: ", e))
  /\ Return

\* Fault: a failure other than already-exists is swallowed without printing.
AzInnerExceptSilent(lines, e) ==
  /\ out' = IF AzIsAlreadyExists(e.text)
              THEN Append(lines, Info("Azure Container already exists"))
              ELSE lines
  /\ Return

\* Fault: a failure other than already-exists is raised again, as in the
\* rich create_s3_bucket, and lands in the outer handler.
AzInnerExceptReraise(lines, e) ==
  IF AzIsAlreadyExists(e.text)
    THEN out' = Append(lines, Info("Azure Container already exists")) /\ Return
    ELSE AzOuterExcept(lines, e)

\* inner handler of create_container: both branches print and fall through to
\* the end of the function.
AzInnerExcept(lines, e) ==
  /\ out' = Append(lines, IF AzIsAlreadyExists(e.text)
                            THEN Info("Azure Container already exists")
                            ELSE ErrorLine("Azure Error: ", e))
  /\ Return

\* print("Creating Azure container..."); BlobServiceClient.from_connection_string
AzFromConnectionString ==
  /\ Running("create_azure_container") /\ pc = "from_connection_string"
  /\ \E r \in HandleResults :
       LET lines == Append(out, Plain("Creating Azure container...")) IN
       /\ calls' = Append(calls, Call("create_azure_container",
                                      "from_connection_string", r))
       /\ IF Ok(r) THEN out' = lines /\ Stay("get_container_client")
                   ELSE AzOuterExcept(lines, r)
  /\ UNCHANGED <<buckets, objects, containers>>
  /\ Fixed

\* blob_service_client.get_container_client("test-container")
AzGetContainerClient ==
  /\ Running("create_azure_container") /\ pc = "get_container_client"
  /\ \E r \in HandleResults :
       /\ calls' = Append(calls, Call("create_azure_container",
                                      "get_container_client", r))
       /\ IF Ok(r) THEN out' = out /\ Stay("create_container")
                   ELSE AzOuterExcept(out, r)
  /\ UNCHANGED <<buckets, objects, containers>>
  /\ Fixed

\* container_client.create_container(); print("... created")
AzCreateContainer ==
  /\ Running("create_azure_container") /\ pc = "create_container"
  /\ \E r \in CreateContainerResults(AzContainerName) :
       /\ calls' = Append(calls, Call("create_azure_container",
                                      "create_container", r))
       /\ IF Ok(r)
            THEN /\ containers' = containers \cup {AzContainerName}
                 /\ out' = Append(out, Success("Azure Container 'test-container' created"))
                 /\ Return
            ELSE /\ containers' = containers
                 /\ AzInnerExcept(out, r)
  /\ UNCHANGED <<buckets, objects>>
  /\ Fixed

-----------------------------------------------------------------------------
(* The script is executed again once the previous execution has ended.       *)

Snapshot == [buckets |-> buckets, objects |-> objects, containers |-> containers]

Rerun ==
  /\ pc = "done" /\ run < MaxRuns
  /\ run' = run + 1
  /\ prev' = [out |-> out, calls |-> calls, start |-> start]
  /\ start' = Snapshot
  /\ out' = <<>> /\ calls' = <<>>
  /\ mi' = 1 /\ pc' = Entry(Main[1])
  /\ UNCHANGED <<variant, dupPolicy, buckets, objects, containers>>

\* Remote state a script can find: no bucket, an empty bucket, or a bucket that
\* holds an older test object; the container absent or present.
InitialS3 ==
  { [buckets |-> {}, objects |-> {}],
    [buckets |-> {"test-bucket"}, objects |-> {}],
    [buckets |-> {"test-bucket"},
     objects |-> {[bucket |-> "test-bucket", key |-> "test_file_boto.txt",
                   body |-> "stale"]}] }

Init ==
  /\ variant \in {"simple", "rich"}
  /\ dupPolicy \in DupPolicies
  /\ \E s \in InitialS3 : buckets = s.buckets /\ objects = s.objects
  /\ containers \in SUBSET {"test-container"}
  /\ run = 1
  /\ mi = 1 /\ pc = Entry(Main[1])
  /\ out = <<>> /\ calls = <<>>
  /\ start = Snapshot
  /\ prev = [out |-> <<>>, calls |-> <<>>, start |-> Snapshot]

S3Step ==
  \/ SimpleS3Client
  \/ SimpleS3CreateBucket
  \/ RichS3Client
  \/ RichS3ListBuckets
  \/ RichS3CreateBucket
  \/ RichS3PutObject

AzStep ==
  \/ AzFromConnectionString
  \/ AzGetContainerClient
  \/ AzCreateContainer

Next ==
  \/ SimpleS3Client
  \/ SimpleS3CreateBucket
  \/ RichS3Client
  \/ RichS3ListBuckets
  \/ RichS3CreateBucket
  \/ RichS3PutObject
  \/ AzFromConnectionString
  \/ AzGetContainerClient
  \/ AzCreateContainer
  \/ Rerun

Spec == Init /\ [][Next]_vars

TypeOK ==
  /\ variant \in {"simple", "rich"}
  /\ buckets \subseteq {"test-bucket"}
  /\ containers \subseteq {"test-container"}
  /\ run \in 1..MaxRuns
  /\ mi \in 1..(Len(Main) + 1)

-----------------------------------------------------------------------------
(* Vocabulary of the properties.                                             *)

S3Fn == "create_s3_bucket"

AzFn == "create_azure_container"

RemoteOps == {"list_buckets", "create_bucket", "put_object", "create_container"}

\* fn has returned to the main sequence in the current run.
Returned(fn) == \E i \in 1..Len(Main) : Main[i] = fn /\ i < mi

Has(o, glyph, head) == \E i \in 1..Len(o) : o[i].glyph = glyph /\ o[i].head = head

ErrorHeads(fn) ==
  IF fn = S3Fn THEN {"S3 Error: "} ELSE {"Azure Error: ", "Azure Script Error: "}

CreatedHead(fn) ==
  IF fn = S3Fn THEN "S3 Bucket 'test-bucket' created"
               ELSE "Azure Container 'test-container' created"

ExistsHead(fn) ==
  IF fn = S3Fn THEN "S3 Bucket already exists" ELSE "Azure Container already exists"

Heads(fn) ==
  ErrorHeads(fn) \cup {CreatedHead(fn), ExistsHead(fn)}
    \cup (IF fn = S3Fn THEN {"S3 Upload successful via Boto3"} ELSE {})

ErrorLines(o, fn) ==
  {i \in 1..Len(o) : o[i].glyph = "err" /\ o[i].head \in ErrorHeads(fn)}

GoodLines(o, fn) ==
  {i \in 1..Len(o) : o[i].glyph \in {"ok", "info"} /\ o[i].head \in Heads(fn)}

CallIdx(log, fn, op) == {i \in 1..Len(log) : log[i].fn = fn /\ log[i].op = op}

Failed(c) == c.kind # "ok"

\* The emulator answered every call of fn according to its state.
Reachable(log, fn) ==
  /\ \E i \in 1..Len(log) : log[i].fn = fn
  /\ \A i \in 1..Len(log) : log[i].fn = fn => log[i].kind \in {"ok", "dup"}

\* Every request fn sent failed to connect.
Unreachable(log, fn) ==
  \A i \in 1..Len(log) :
    (log[i].fn = fn /\ log[i].op \in RemoteOps) => log[i].kind = "conn"

TestObject ==
  [bucket |-> "test-bucket", key |-> "test_file_boto.txt", body |-> "Hello Boto3"]

ObjectStored ==
  /\ "test-bucket" \in buckets
  /\ {o \in objects : o.bucket = "test-bucket" /\ o.key = "test_file_boto.txt"}
       = {TestObject}

-----------------------------------------------------------------------------
\* C1: whatever SDK calls succeed or fail, in both variants, no exception
\* leaves create_s3_bucket or create_azure_container; the main sequence can
\* always take its next step until it is at its normal end, and it is at its
\* end exactly when both provisioners have returned.
C1_NoExceptionEscapes ==
  /\ pc # "crashed"
  /\ (pc = "done") <=> (mi = Len(Main) + 1)
  /\ (pc = "done") => (Returned(S3Fn) /\ Returned(AzFn))
  /\ (pc # "done") => ENABLED (S3Step \/ AzStep)

C1_Witness ==
  /\ pc = "done"
  /\ \E i \in 1..Len(calls) : calls[i].fn = S3Fn /\ Failed(calls[i])
  /\ \E i \in 1..Len(calls) : calls[i].fn = AzFn /\ Failed(calls[i])

\* C2: two runs in a row of the S3 provisioner against a reachable emulator
\* that starts without 'test-bucket' and rejects a duplicate create with
\* BucketAlreadyExists: the second run prints the 'already exists' information
\* line and no 'S3 Error' line, in both variants.
C2_SecondRunReportsExists ==
  ( /\ run >= 2
    /\ dupPolicy = "BucketAlreadyExists"
    /\ prev.start.buckets = {}
    /\ Reachable(prev.calls, S3Fn)
    /\ Returned(S3Fn)
    /\ Reachable(calls, S3Fn) )
  => /\ pc # "crashed"
     /\ Has(out, "info", "S3 Bucket already exists")
     /\ ErrorLines(out, S3Fn) = {}

\* C3 as claimed: in the rich variant, whenever create_s3_bucket has returned,
\* 'test-bucket' holds 'test_file_boto.txt' with body 'Hello Boto3'.
C3_ObjectAfterEveryReturn ==
  (variant = "rich" /\ Returned(S3Fn)) => ObjectStored

\* C3 amended: in the rich variant, whenever create_s3_bucket has returned
\* without printing an 'S3 Error' line, 'test-bucket' holds
\* 'test_file_boto.txt' with body 'Hello Boto3', whatever was there before.
C3_ObjectAfterCleanReturn ==
  (variant = "rich" /\ Returned(S3Fn) /\ ErrorLines(out, S3Fn) = {})
  => /\ ObjectStored
     /\ Has(out, "ok", "S3 Upload successful via Boto3")

C3_Witness ==
  /\ variant = "rich" /\ Returned(S3Fn) /\ ErrorLines(out, S3Fn) = {}
  /\ start.objects # {} /\ TestObject \notin start.objects
  /\ ObjectStored

\* C4: with a reachable blob emulator and no 'test-container', a run of
\* create_azure_container leaves the container existing and prints 'created';
\* the run after it leaves the container existing, prints the 'already
\* exists' information line and neither 'Azure Error' nor 'Azure Script Error'.
C4_ContainerIdempotent ==
  /\ ( Returned(AzFn) /\ start.containers = {} /\ Reachable(calls, AzFn) )
     => /\ "test-container" \in containers
        /\ Has(out, "ok", "Azure Container 'test-container' created")
  /\ ( /\ run >= 2 /\ prev.start.containers = {} /\ Reachable(prev.calls, AzFn)
       /\ Returned(AzFn) /\ Reachable(calls, AzFn) )
     => /\ "test-container" \in containers
        /\ Has(out, "info", "Azure Container already exists")
        /\ ErrorLines(out, AzFn) = {}

C4_Witness ==
  /\ run >= 2 /\ prev.start.containers = {} /\ Reachable(prev.calls, AzFn)
  /\ Has(prev.out, "ok", "Azure Container 'test-container' created")
  /\ Returned(AzFn) /\ Reachable(calls, AzFn)
  /\ Has(out, "info", "Azure Container already exists")

\* C5: with a reachable S3 emulator and no 'test-bucket', one run of
\* create_s3_bucket (either variant) ends with the bucket existing, the
\* "S3 Bucket 'test-bucket' created" line printed and no error line printed.
C5_BucketCreated ==
  ( Returned(S3Fn) /\ start.buckets = {} /\ Reachable(calls, S3Fn) )
  => /\ "test-bucket" \in buckets
     /\ Has(out, "ok", "S3 Bucket 'test-bucket' created")
     /\ ErrorLines(out, S3Fn) = {}

C5_Witness ==
  /\ Returned(S3Fn) /\ start.buckets = {} /\ Reachable(calls, S3Fn)
  /\ CallIdx(calls, S3Fn, "create_bucket") # {}
  /\ "test-bucket" \in buckets

\* C6: when every request of a provisioner fails to connect, that
\* provisioner prints exactly one error line, no success or information
\* line, leaves its remote store as it was, and returns normally.
C6_UnreachableEndpoint ==
  \A fn \in {S3Fn, AzFn} :
    ( Returned(fn) /\ Unreachable(calls, fn) )
    => /\ pc # "crashed"
       /\ Cardinality(ErrorLines(out, fn)) = 1
       /\ GoodLines(out, fn) = {}
       /\ fn = S3Fn => (buckets = start.buckets /\ objects = start.objects)
       /\ fn = AzFn => (containers = start.containers)
       /\ (\A i \in 1..Len(calls) : calls[i].fn = fn) => Snapshot = start

C6_Witness ==
  /\ pc = "done"
  /\ Unreachable(calls, S3Fn) /\ Unreachable(calls, AzFn)
  /\ \E i \in 1..Len(calls) : calls[i].fn = S3Fn /\ calls[i].kind = "conn"
  /\ \E i \in 1..Len(calls) : calls[i].fn = AzFn /\ calls[i].kind = "conn"

-----------------------------------------------------------------------------
\* Outcome create_azure_container must report, from the blob side alone: the
\* container store at the start of the run and the answers to its own calls.
BlobOutcomeFromBlobState ==
  LET handleFailed == \E i \in 1..Len(calls) :
                        /\ calls[i].fn = AzFn /\ Failed(calls[i])
                        /\ calls[i].op # "create_container"
      created == CallIdx(calls, AzFn, "create_container")
  IN  /\ handleFailed => (Has(out, "err", "Azure Script Error: ")
                          /\ containers = start.containers)
      /\ \A i \in created :
           /\ calls[i].kind \in {"ok", "dup"} =>
                IF start.containers = {}
                  THEN /\ Has(out, "ok", "Azure Container 'test-container' created")
                       /\ containers = {"test-container"}
                  ELSE /\ Has(out, "info", "Azure Container already exists")
                       /\ containers = start.containers
           /\ calls[i].kind \in {"conn", "op"} =>
                (Has(out, "err", "Azure Error: ") /\ containers = start.containers)

C7_State ==
  /\ \A i, j \in 1..Len(calls) :
       (calls[i].fn = S3Fn /\ calls[j].fn = AzFn) => i < j
  /\ (Running(AzFn) \/ Has(out, "none", "Creating Azure container..."))
       => Returned(S3Fn)
  /\ pc # "crashed"
  /\ (pc = "done") => Has(out, "none", "Creating Azure container...")
  /\ Returned(AzFn) => BlobOutcomeFromBlobState

C7_Step ==
  /\ Running(S3Fn) => containers' = containers
  /\ Running(AzFn) => (buckets' = buckets /\ objects' = objects)

\* C7: in the main sequence every call of the S3 provisioner precedes every
\* call of the blob provisioner, the blob provisioner runs after every
\* outcome of the S3 provisioner, its printed outcome and its effect on the
\* container store follow from the blob emulator's state and answers alone,
\* the S3 provisioner never changes the container store and the blob
\* provisioner never changes buckets or objects.
C7_SequentialIndependent == [](C7_State) /\ [][C7_Step]_vars

C7_Witness ==
  /\ pc = "done"
  /\ ErrorLines(out, S3Fn) # {}
  /\ GoodLines(out, S3Fn) = {}
  /\ start.containers = {}
  /\ Has(out, "ok", "Azure Container 'test-container' created")

\* C8: in create_azure_container a failure of from_connection_string or
\* get_container_client is reported only as 'Azure Script Error' and
\* create_container is then never called; a create_container failure whose
\* text lacks 'ContainerAlreadyExists' is reported only as 'Azure Error'; no
\* create_container failure is reported as 'Azure Script Error' and no handle
\* failure as 'Azure Error'.
C8_AzureErrorBoundaries ==
  \A i \in 1..Len(calls) :
    (calls[i].fn = AzFn /\ Failed(calls[i])) =>
      LET errs == {out[k] : k \in ErrorLines(out, AzFn)} IN
      IF calls[i].op = "create_container"
        THEN /\ ~Has(out, "err", "Azure Script Error: ")
             /\ ~Contains(calls[i].text, "ContainerAlreadyExists")
                  => errs = {Line("err", "Azure Error: ", calls[i].text)}
             /\ Returned(AzFn)
        ELSE /\ errs = {Line("err", "Azure Script Error: ", calls[i].text)}
             /\ Cardinality(ErrorLines(out, AzFn)) = 1
             /\ CallIdx(calls, AzFn, "create_container") = {}
             /\ GoodLines(out, AzFn) = {}
             /\ Returned(AzFn)

C8_Witness ==
  /\ run >= 2
  /\ \E i \in CallIdx(prev.calls, AzFn, "get_container_client") :
       Failed(prev.calls[i])
  /\ \E i \in CallIdx(calls, AzFn, "create_container") :
       calls[i].kind \in {"conn", "op"}
  /\ Has(prev.out, "err", "Azure Script Error: ")
  /\ Has(out, "err", "Azure Error: ")

\* C9: in the rich create_s3_bucket a create_bucket failure whose text has
\* 'BucketAlreadyExists' or 'BucketNameUnavailable' prints the information
\* line, prints no 'S3 Error' for it, and put_object is attempted next; any
\* other create_bucket failure prints exactly one 'S3 Error' line, with that
\* failure's text, and put_object is never attempted in that run; put_object
\* is attempted only after create_bucket succeeded or was so classified.
C9_AlreadyExistsClassification ==
  variant = "rich" =>
    LET puts == CallIdx(calls, S3Fn, "put_object")
        errs == {out[k] : k \in ErrorLines(out, S3Fn)}
        toPut == (Running(S3Fn) /\ pc = "put_object") \/ puts # {}
    IN
    /\ \A i \in CallIdx(calls, S3Fn, "create_bucket") :
         Failed(calls[i]) =>
           IF \/ Contains(calls[i].text, "BucketAlreadyExists")
              \/ Contains(calls[i].text, "BucketNameUnavailable")
             THEN /\ Has(out, "info", "S3 Bucket already exists")
                  /\ Line("err", "S3 Error: ", calls[i].text) \notin errs
                  /\ toPut
                  /\ errs # {} => \E j \in puts : Failed(calls[j])
             ELSE /\ errs = {Line("err", "S3 Error: ", calls[i].text)}
                  /\ Cardinality(ErrorLines(out, S3Fn)) = 1
                  /\ ~toPut
                  /\ Returned(S3Fn)
    /\ toPut =>
         \E i \in CallIdx(calls, S3Fn, "create_bucket") :
           \/ calls[i].kind = "ok"
           \/ Contains(calls[i].text, "BucketAlreadyExists")
           \/ Contains(calls[i].text, "BucketNameUnavailable")

C9_Witness ==
  /\ variant = "rich" /\ Returned(S3Fn)
  /\ \E i \in CallIdx(calls, S3Fn, "create_bucket") :
       Contains(calls[i].text, "BucketNameUnavailable")
  /\ CallIdx(calls, S3Fn, "put_object") # {}
  /\ run >= 2
  /\ \E i \in CallIdx(prev.calls, S3Fn, "create_bucket") :
       Contains(prev.calls[i].text, "BucketAlreadyOwnedByYou")
  /\ CallIdx(prev.calls, S3Fn, "put_object") = {}

Created(fn) == Has(out, "ok", CreatedHead(fn))

AlreadyExisted(fn) == Has(out, "info", ExistsHead(fn))

Errored(fn) == ErrorLines(out, fn) # {}

\* C10 as claimed: a run of a provisioner ends in exactly one of created,
\* already-existed, failed: it never prints both a 'created' or 'already
\* exists' line and an error line, and never prints none of them.
C10_ExactlyOneOutcome ==
  \A fn \in {S3Fn, AzFn} :
    Returned(fn) =>
      /\ ~((Created(fn) \/ AlreadyExisted(fn)) /\ Errored(fn))
      /\ ~(Created(fn) /\ AlreadyExisted(fn))
      /\ Created(fn) \/ AlreadyExisted(fn) \/ Errored(fn)

\* C10 amended: a run of a provisioner always prints 'created', 'already
\* exists' or an error line and never both 'created' and 'already exists'; it
\* prints an error line together with 'created' or 'already exists' only in
\* the rich create_s3_bucket when put_object failed after the bucket step.
C10_OutcomeUnlessUploadFails ==
  \A fn \in {S3Fn, AzFn} :
    Returned(fn) =>
      /\ Created(fn) \/ AlreadyExisted(fn) \/ Errored(fn)
      /\ ~(Created(fn) /\ AlreadyExisted(fn))
      /\ ((Created(fn) \/ AlreadyExisted(fn)) /\ Errored(fn)) =>
           /\ fn = S3Fn /\ variant = "rich"
           /\ \E i \in CallIdx(calls, S3Fn, "put_object") : Failed(calls[i])

C10_Witness ==
  /\ variant = "rich" /\ Returned(S3Fn)
  /\ Created(S3Fn) /\ Errored(S3Fn)
  /\ Returned(AzFn) /\ AlreadyExisted(AzFn) /\ ~Errored(AzFn)

====
